---- MODULE Spec2Model ----
(***************************************************************************)
(* Model of docs/source/conf.py, the Sphinx build configuration of the     *)
(* Feluda documentation site.                                              *)
(*                                                                         *)
(* The module has two parts: the configuration values bound when Sphinx    *)
(* imports the file (lines 9-48) and the hook setup(app) (lines 50-52),    *)
(* which Sphinx calls with the application object once the extensions are  *)
(* loaded.  The state is the module namespace (conf), the application      *)
(* object handed to the hook (app), and the record of the method calls the *)
(* hook has made on it (calls).                                            *)
(***************************************************************************)
EXTENDS Naturals, Sequences, FiniteSets

VARIABLES
    conf,     \* the module namespace of conf.py after import
    app,      \* the Sphinx application object passed to setup(app)
    calls,    \* the method calls setup has made on app, in order
    ncalls    \* how many times setup(app) has returned

vars == <<conf, app, calls, ncalls>>

(***************************************************************************)
(* Bounds of the model.                                                    *)
(***************************************************************************)
\* Longest list of CSS (and of JS) files other extensions registered on the
\* application before the hook runs.
MaxPrior == 2
\* Most invocations of setup(app) on one application.
MaxCalls == 2

SeqsUpTo(S, n) == UNION {[1..k -> S] : k \in 0..n}

\* File names that may already be registered on the application when the hook
\* is entered; the hook's own names are among them, so that a registration of
\* a name that is already present is covered.
PriorCss == {"custom.css", "design.css", "tabs.css"}
PriorJs == {"custom.js", "design.js", "tabs.js"}
\* The builder the application was started for (html output, link checking).
Builders == {"html", "linkcheck"}

(***************************************************************************)
(* Module-level configuration, conf.py lines 9-48.                         *)
(***************************************************************************)
extensions == <<"sphinx_design", "sphinx_iconify", "sphinx_tabs.tabs">>

linkcheck_ignore == <<"https://crates\\.io/", "https://api\\.opensource\\.org/">>

html_theme_options ==
    [logo_target |-> "/",
     crate_url   |-> "https://crates.io/crates/feluda",
     github_url  |-> "https://github.com/anistark/feluda",
     discord_url |-> "https://discord.gg/5YrbwNRGaE"]

ModuleConfig ==
    [project            |-> "Feluda",
     copyright          |-> "2025, The Feluda Maintainers",
     author             |-> "The Feluda Maintainers",
     release            |-> "v1.10.0",
     extensions         |-> extensions,
     templates_path     |-> <<"_templates">>,
     exclude_patterns   |-> <<>>,
     language           |-> "en",
     linkcheck_ignore   |-> linkcheck_ignore,
     html_theme         |-> "shibuya",
     html_static_path   |-> <<"_static">>,
     html_logo          |-> "_static/felu.png",
     html_favicon       |-> "_static/favicon.png",
     html_title         |-> "Feluda",
     html_theme_options |-> html_theme_options]

(***************************************************************************)
(* The two application methods the hook calls.  Each registers one file    *)
(* name at the end of the application's list of that kind and touches      *)
(* nothing else of the application.                                        *)
(***************************************************************************)
add_css_file(a, filename) ==
    [a EXCEPT !.css_files = Append(@, filename)]

add_js_file(a, filename) ==
    [a EXCEPT !.js_files = Append(@, filename)]

(***************************************************************************)
(* setup(app), conf.py lines 50-52: the application after the hook, and    *)
(* the calls the hook makes, in program order.                             *)
(***************************************************************************)
\* A copy-and-paste slip: the second line repeats add_css_file.
setup_app_css_twice(a) ==
    add_css_file(add_css_file(a, "custom.css"), "custom.js")

setup_app(a) ==
    add_js_file(add_css_file(a, "custom.css"), "custom.js")

setup_calls ==
    << [method |-> "add_css_file", filename |-> "custom.css"],
       [method |-> "add_js_file",  filename |-> "custom.js"] >>

(***************************************************************************)
(* State machine.                                                          *)
(***************************************************************************)
Init ==
    /\ conf = ModuleConfig
    /\ app \in [css_files   : SeqsUpTo(PriorCss, MaxPrior),
                js_files    : SeqsUpTo(PriorJs, MaxPrior),
                buildername : Builders]
    /\ calls = <<>>
    /\ ncalls = 0

\* One invocation of the hook.  It reads and writes no module-level name.
setup ==
    /\ ncalls < MaxCalls
    /\ app' = setup_app(app)
    /\ calls' = calls \o setup_calls
    /\ ncalls' = ncalls + 1
    /\ UNCHANGED conf

Next == setup

Spec == Init /\ [][Next]_vars

(***************************************************************************)
(* Properties.                                                             *)
(***************************************************************************)
TypeOK ==
    /\ conf = ModuleConfig
    /\ app.css_files \in Seq(PriorCss)
    /\ app.js_files \in Seq(PriorJs)
    /\ app.buildername \in Builders
    /\ ncalls \in 0..MaxCalls

\* C10: every step of the system is one call of setup(app), and such a step
\* registers exactly the CSS file 'custom.css' and then exactly the JS file
\* 'custom.js' on the application, each once (also when the name is already
\* registered), and leaves the rest of the application and every
\* module-level configuration value as they were.
SetupOnlyRegistersStaticAssets ==
    [][ /\ app'.css_files = Append(app.css_files, "custom.css")
        /\ app'.js_files = Append(app.js_files, "custom.js")
        /\ app'.buildername = app.buildername
        /\ DOMAIN app' = DOMAIN app
        /\ calls' = calls \o << [method |-> "add_css_file", filename |-> "custom.css"],
                                [method |-> "add_js_file", filename |-> "custom.js"] >>
        /\ conf' = conf
        /\ conf'.extensions = extensions
        /\ conf'.linkcheck_ignore = linkcheck_ignore
        /\ conf'.html_theme_options = html_theme_options ]_vars

\* The hook has run on an application that already carried other extensions'
\* files, one of them named 'custom.css': the new entries are the last ones.
SetupRanOnPopulatedApp ==
    /\ ncalls = 1
    /\ Len(calls) = 2
    /\ Len(app.css_files) = 3
    /\ app.css_files[1] = "custom.css"
    /\ app.css_files[3] = "custom.css"
    /\ Len(app.js_files) = 2
    /\ app.js_files[1] = "tabs.js"
    /\ app.js_files[2] = "custom.js"
    /\ app.buildername = "linkcheck"

====
